---- MODULE Spec2Model ----
(***************************************************************************)
(* Model of the Minesweeper knowledge base of src/minesweeper.py:          *)
(* class Sentence (a set of cells and a count of the mines among them) and *)
(* class MinesweeperAI (moves_made, mines, safes and the list knowledge),  *)
(* driven by add_knowledge(cell, count) with the counts reported by a      *)
(* fixed board (class Minesweeper, nearby_mines).                          *)
(*                                                                         *)
(* A cell is a pair <<row, column>>.  A sentence is a record               *)
(* [cells |-> set of cells, count |-> integer].  self.knowledge is a       *)
(* Python list, so it is a sequence here: it can hold equal sentences and  *)
(* empty ones.  The fields of the AI that an operation changes travel      *)
(* through the operators as one record [mines, safes, knowledge].          *)
(***************************************************************************)
EXTENDS Integers, Sequences, FiniteSets

\* Bounds of the exploration.
MaxProbes == 2
MaxMines == 2

\* The (height, width) pairs the AI and the board are constructed with.
BoardSizes == {<<2, 2>>, <<3, 3>>, <<10, 1>>}

\* The literal 7 of mark_safe (line 181) and add_knowledge (line 215).
HardLimit == 7

VARIABLES
    height,      \* MinesweeperAI.height / Minesweeper.height
    width,       \* MinesweeperAI.width / Minesweeper.width
    board,       \* Minesweeper.mines: the fixed layout, the set of mined cells
    moves_made,  \* MinesweeperAI.moves_made
    mines,       \* MinesweeperAI.mines
    safes,       \* MinesweeperAI.safes
    knowledge,   \* MinesweeperAI.knowledge
    probes,      \* number of add_knowledge calls the game loop has made
    last,        \* the last call made on the AI and the value it returned
    pc,          \* position inside add_knowledge, "idle" between calls
    knowledge_temp,  \* the local knowledge_temp of add_knowledge
    passes       \* update_knowledge_base calls made by the current add_knowledge

vars == <<height, width, board, moves_made, mines, safes, knowledge, probes,
          last, pc, knowledge_temp, passes>>

\* Python's None, the value of a call that returns nothing.
None == "None"

\* A call and the value it returned.
Call(op, ret) == [op |-> op, ret |-> ret]

Range(s) == {s[i] : i \in 1..Len(s)}

\* The cells of an h x w board: range(height) x range(width).
BoardCells(h, w) == (0..(h - 1)) \X (0..(w - 1))

----------------------------------------------------------------------------
(* class Minesweeper *)

\* nearby_mines: mines within one row and column of cell, in bounds, not
\* counting the cell itself.
nearby_mines(h, w, b, cell) ==
    Cardinality({c \in (cell[1] - 1..cell[1] + 1) \X (cell[2] - 1..cell[2] + 1) :
                    /\ c # cell
                    /\ 0 <= c[1] /\ c[1] < h /\ 0 <= c[2] /\ c[2] < w
                    /\ c \in b})

----------------------------------------------------------------------------
(* class Sentence *)

Sentence(cells, count) == [cells |-> cells, count |-> count]

known_mines(s) ==
    IF s.count = 0 THEN {}
    ELSE IF s.count = Cardinality(s.cells) THEN s.cells
    ELSE {}

known_safes(s) ==
    IF s.count = 0 THEN s.cells ELSE {}

\* Sentence.mark_mine without the membership test of line 132
\* (discard in place of remove): the count drops on every call.
Sentence_mark_mine_NoTest(s, cell) ==
    Sentence(s.cells \ {cell}, s.count - 1)

Sentence_mark_mine(s, cell) ==
    IF cell \notin s.cells THEN s
    ELSE Sentence(s.cells \ {cell}, s.count - 1)

Sentence_mark_safe(s, cell) ==
    IF cell \notin s.cells THEN s
    ELSE Sentence(s.cells \ {cell}, s.count)

----------------------------------------------------------------------------
(* class MinesweeperAI *)

AI(m, sf, k) == [mines |-> m, safes |-> sf, knowledge |-> k]

\* mark_mine: add the cell to mines and narrow every sentence.
mark_mine(ai, cell) ==
    AI(ai.mines \cup {cell},
       ai.safes,
       [i \in 1..Len(ai.knowledge) |-> Sentence_mark_mine(ai.knowledge[i], cell)])

\* mark_safe: the same for safes, but only inside the hardcoded 8 x 8 square;
\* any other cell only prints an error and changes nothing.
mark_safe(ai, cell) ==
    IF cell[1] <= HardLimit /\ cell[2] <= HardLimit
    THEN AI(ai.mines,
            ai.safes \cup {cell},
            [i \in 1..Len(ai.knowledge) |-> Sentence_mark_safe(ai.knowledge[i], cell)])
    ELSE ai

\* "for mine in self.mines: self.mark_mine(mine)".  mark_mine re-adds a
\* member of the set it iterates, so the iteration is over a fixed set and
\* its order does not show in the result.
RECURSIVE MarkAllMines(_, _)
MarkAllMines(ai, todo) ==
    IF todo = {} THEN ai
    ELSE LET mine == CHOOSE c \in todo : TRUE
         IN  MarkAllMines(mark_mine(ai, mine), todo \ {mine})

\* "for safe_cell in self.safes: self.mark_safe(safe_cell)".
RECURSIVE MarkAllSafes(_, _)
MarkAllSafes(ai, todo) ==
    IF todo = {} THEN ai
    ELSE LET safe_cell == CHOOSE c \in todo : TRUE
         IN  MarkAllSafes(mark_safe(ai, safe_cell), todo \ {safe_cell})

\* CollectKnown with "self.safes = sentence.known_safes()" in place of the
\* union with self.safes: the safes of the last sentence replace the set.
CollectKnown_Replace(ai) ==
    AI(ai.mines \cup UNION {known_mines(s) : s \in Range(ai.knowledge)},
       IF ai.knowledge = <<>> THEN ai.safes
       ELSE known_safes(ai.knowledge[Len(ai.knowledge)]),
       ai.knowledge)

\* Lines 235-239: union every sentence's known safes and known mines into
\* the sets.  The sentences themselves are not narrowed here.
CollectKnown(ai) ==
    AI(ai.mines \cup UNION {known_mines(s) : s \in Range(ai.knowledge)},
       ai.safes \cup UNION {known_safes(s) : s \in Range(ai.knowledge)},
       ai.knowledge)

\* Lines 241-249: new_knowledge_list, in the order of the two nested loops
\* (larger_set outer, subset inner).  issubset is not a proper-subset test;
\* the pair is skipped only when the two sentences are equal by value.
NewKnowledgeList(k) ==
    LET n == Len(k)
        pairs == [p \in 1..(n * n) |-> <<((p - 1) \div n) + 1, ((p - 1) % n) + 1>>]
        hits == SelectSeq(pairs,
                          LAMBDA p : /\ k[p[2]].cells \subseteq k[p[1]].cells
                                     /\ k[p[2]] # k[p[1]])
    IN  [i \in 1..Len(hits) |->
            Sentence(k[hits[i][1]].cells \ k[hits[i][2]].cells,
                     k[hits[i][1]].count - k[hits[i][2]].count)]

\* Lines 250-252: append each new sentence that is not in the list at that
\* moment, i.e. neither in the list before the loop nor among the sentences
\* the loop has appended before it.
AppendNew(k, new) ==
    LET fresh == SelectSeq([i \in 1..Len(new) |-> i],
                           LAMBDA i : /\ new[i] \notin Range(k)
                                      /\ \A j \in 1..(i - 1) : new[j] # new[i])
    IN  k \o [m \in 1..Len(fresh) |-> new[fresh[m]]]

\* update_knowledge_base: one inference pass.
update_knowledge_base(ai) ==
    LET a1 == MarkAllMines(ai, ai.mines)
        a2 == MarkAllSafes(a1, a1.safes)
        a3 == CollectKnown(a2)
    IN  AI(a3.mines, a3.safes,
           AppendNew(a3.knowledge, NewKnowledgeList(a3.knowledge)))

\* Lines 209-216: the neighbours add_knowledge puts in the new sentence.
\* The filter is 0 <= row <= height, 0 <= column <= width, and both <= 7.
neighboring_cells(h, w, cell) ==
    {c \in ((cell[1] - 1..cell[1] + 1) \X (cell[2] - 1..cell[2] + 1)) \ {cell} :
        /\ c[1] >= 0 /\ c[1] <= h /\ c[2] >= 0 /\ c[2] <= w
        /\ c[1] <= HardLimit /\ c[2] <= HardLimit}

\* Lines 219-225.  knowledge_temp is a shallow copy holding the same
\* Sentence objects, so after the first pass the lists compare equal exactly
\* when nothing was appended.  Inside the loop knowledge_temp is bound to
\* self.knowledge itself, so the comparison after the second pass is of the
\* list with itself and the loop ends.
RunPasses(ai) ==
    LET p1 == update_knowledge_base(ai)
    IN  IF Len(p1.knowledge) = Len(ai.knowledge) THEN p1
        ELSE update_knowledge_base(p1)

\* add_knowledge without the moves_made bookkeeping (line 204).
add_knowledge(ai, h, w, cell, count) ==
    LET a1 == mark_safe(ai, cell)
        a2 == AI(a1.mines, a1.safes,
                 Append(a1.knowledge, Sentence(neighboring_cells(h, w, cell), count)))
    IN  RunPasses(a2)

----------------------------------------------------------------------------
(* The state machine *)

Self == AI(mines, safes, knowledge)

Init ==
    /\ \E hw \in BoardSizes : height = hw[1] /\ width = hw[2]
    /\ board \in {b \in SUBSET BoardCells(height, width) : Cardinality(b) <= MaxMines}
    /\ moves_made = {}
    /\ mines = {}
    /\ safes = {}
    /\ knowledge = <<>>
    /\ probes = 0
    /\ last = Call("__init__", None)
    /\ pc = "idle"
    /\ knowledge_temp = [alias |-> FALSE, len |-> 0]
    /\ passes = 0

\* The game loop probes a cell that is not a mine and hands the AI the
\* count the board reports for it.
Observe(cell) ==
    /\ probes < MaxProbes
    /\ cell \in BoardCells(height, width) \ board
    /\ LET r == add_knowledge(Self, height, width, cell,
                              nearby_mines(height, width, board, cell))
       IN  /\ mines' = r.mines
           /\ safes' = r.safes
           /\ knowledge' = r.knowledge
    /\ moves_made' = moves_made \cup {cell}
    /\ probes' = probes + 1
    /\ last' = Call("add_knowledge", None)
    /\ UNCHANGED <<height, width, board, pc, knowledge_temp, passes>>

Next == \E cell \in BoardCells(height, width) : Observe(cell)

Spec == Init /\ [][Next]_vars

----------------------------------------------------------------------------
(* Properties of the knowledge base.  Every state of Spec is a state in    *)
(* which add_knowledge has returned (or has not been called yet).          *)

\* The statements' cells, and every cell the knowledge base mentions.
StatementCells == UNION {s.cells : s \in Range(knowledge)}

\* n further inference passes.
RECURSIVE Passes(_, _)
Passes(ai, n) == IF n = 0 THEN ai ELSE Passes(update_knowledge_base(ai), n - 1)

\* How many further passes the completeness property looks ahead.
MaxExtraPasses == 2

\* C1 (soundness): with counts reported by the fixed layout, every cell in
\* mines is a mine of the layout and no cell in safes is one.
C1_Soundness ==
    /\ mines \subseteq board
    /\ safes \cap board = {}

\* C2 (fixpoint on return): when add_knowledge has returned, one more full
\* inference pass changes neither mines, nor safes, nor the statements.
C2_FixpointOnReturn ==
    update_knowledge_base(Self) = Self

\* C3 (completeness on return): when add_knowledge has returned, repeating
\* the inference pass any further number of times adds no cell to mines and
\* no cell to safes.
C3_CompleteOnReturn ==
    \A n \in 1..MaxExtraPasses :
        /\ Passes(Self, n).mines = mines
        /\ Passes(Self, n).safes = safes

\* C4 (purged statements): when add_knowledge has returned, no statement's
\* cell set contains a cell that is in mines or in safes.
C4_ClassifiedCellsPurged ==
    \A i \in 1..Len(knowledge) :
        knowledge[i].cells \cap (mines \cup safes) = {}

\* C5 (no duplicates): the knowledge base never holds two statements with
\* the same cell set and the same count.
C5_NoEqualStatements ==
    \A i, j \in 1..Len(knowledge) :
        i # j => knowledge[i] # knowledge[j]

\* C6 (no vacuous statements): when add_knowledge has returned, no statement
\* in the knowledge base has an empty cell set.
C6_NoEmptyStatement ==
    \A i \in 1..Len(knowledge) : knowledge[i].cells # {}

\* C7 (in-bounds cells): every cell in safes, in mines or in a statement's
\* cell set lies in [0,height) x [0,width).
C7_CellsOnBoard ==
    (safes \cup mines \cup StatementCells) \subseteq BoardCells(height, width)

\* C8 (markSafe defined on the whole board): every probed cell is in safes
\* and has been removed from every statement.
C8_ProbedCellsSafe ==
    /\ moves_made \subseteq safes
    /\ StatementCells \cap moves_made = {}

\* C9 (count range): every statement satisfies 0 <= count <= |cells|.
C9_CountInRange ==
    \A i \in 1..Len(knowledge) :
        /\ 0 <= knowledge[i].count
        /\ knowledge[i].count <= Cardinality(knowledge[i].cells)

\* C10 (disjointness): mines and safes never share a cell.
C10_MinesSafesDisjoint ==
    mines \cap safes = {}

----------------------------------------------------------------------------
(* What remains of C1, C9 and C10 where the hardcoded limit does not cut   *)
(* the board: on boards of at most 8 x 8 the sentence of a probed cell     *)
(* holds all of its in-bounds neighbours, and the three properties hold.   *)

WithinHardLimit == height <= HardLimit + 1 /\ width <= HardLimit + 1

SoundWithinHardLimit ==
    WithinHardLimit => C1_Soundness /\ C9_CountInRange /\ C10_MinesSafesDisjoint

----------------------------------------------------------------------------
(* The public interface of MinesweeperAI, called in any order and with any *)
(* argument: mark_mine, mark_safe, add_knowledge with a count that need    *)
(* not come from a board, update_knowledge_base, make_safe_move and        *)
(* make_random_move.                                                       *)

\* Bounds of the exploration of the interface.
MaxCalls == 2
MaxCount == 2
MaxKnowledge == 3

\* The (height, width) pairs the interface is explored on.
APIBoardSizes == {<<1, 1>>, <<1, 2>>}

\* make_safe_move without the test of line 265: any cell of safes.
make_safe_move_AnySafe(sf, mm) ==
    IF sf # {} THEN sf ELSE {None}

\* make_safe_move: the first cell of safes, in the iteration order of the
\* set, that is not in moves_made; None when the loop finds none.  The
\* iteration order of a set is not fixed, so this is the set of the values
\* the call can return.
make_safe_move(sf, mm) ==
    IF sf # {} /\ (\E cell \in sf : cell \notin mm)
    THEN {cell \in sf : cell \notin mm}
    ELSE {None}

\* make_random_move without the mines test of line 279.
make_random_move_IgnoreMines(h, w, mm, m) ==
    LET candidates == {c \in BoardCells(h, w) : c \notin mm}
    IN  IF candidates # {} THEN candidates ELSE {None}

\* make_random_move: random.choice among the board cells that are neither in
\* moves_made nor in mines; with no candidate it prints and returns None.
make_random_move(h, w, mm, m) ==
    LET candidates == {c \in BoardCells(h, w) : c \notin mm /\ c \notin m}
    IN  IF candidates # {} THEN candidates ELSE {None}

InitAPI ==
    /\ \E hw \in APIBoardSizes : height = hw[1] /\ width = hw[2]
    /\ board = {}
    /\ moves_made = {}
    /\ mines = {}
    /\ safes = {}
    /\ knowledge = <<>>
    /\ probes = 0
    /\ last = Call("__init__", None)
    /\ pc = "idle"
    /\ knowledge_temp = [alias |-> FALSE, len |-> 0]
    /\ passes = 0

Frame == UNCHANGED <<height, width, board, pc, knowledge_temp, passes>>

MarkMine(cell) ==
    /\ LET r == mark_mine(Self, cell)
       IN  mines' = r.mines /\ safes' = r.safes /\ knowledge' = r.knowledge
    /\ last' = Call("mark_mine", None)
    /\ UNCHANGED <<moves_made, probes>>
    /\ Frame

MarkSafe(cell) ==
    /\ LET r == mark_safe(Self, cell)
       IN  mines' = r.mines /\ safes' = r.safes /\ knowledge' = r.knowledge
    /\ last' = Call("mark_safe", None)
    /\ UNCHANGED <<moves_made, probes>>
    /\ Frame

\* add_knowledge(cell, count) with any count; it returns None and raises
\* nothing, whatever the count.  The exploration makes at most MaxCalls such
\* calls, and none once the list is longer than MaxKnowledge.
AddKnowledge(cell, count) ==
    /\ probes < MaxCalls
    /\ Len(knowledge) <= MaxKnowledge
    /\ LET r == add_knowledge(Self, height, width, cell, count)
       IN  mines' = r.mines /\ safes' = r.safes /\ knowledge' = r.knowledge
    /\ moves_made' = moves_made \cup {cell}
    /\ probes' = probes + 1
    /\ last' = Call("add_knowledge", None)
    /\ Frame

\* A direct call of update_knowledge_base.  With contradictory sentences
\* every pass appends new ones, so the exploration stops calling it once the
\* list is longer than MaxKnowledge.
UpdateKnowledgeBase ==
    /\ Len(knowledge) <= MaxKnowledge
    /\ LET r == update_knowledge_base(Self)
       IN  mines' = r.mines /\ safes' = r.safes /\ knowledge' = r.knowledge
    /\ last' = Call("update_knowledge_base", None)
    /\ UNCHANGED <<moves_made, probes>>
    /\ Frame

\* make_safe_move that also records the cell it returns as a move made.
MakeSafeMove_Records ==
    /\ \E r \in make_safe_move(safes, moves_made) :
           /\ last' = Call("make_safe_move", r)
           /\ moves_made' = IF r = None THEN moves_made ELSE moves_made \cup {r}
    /\ UNCHANGED <<mines, safes, knowledge, probes>>
    /\ Frame

MakeSafeMove ==
    /\ \E r \in make_safe_move(safes, moves_made) :
           last' = Call("make_safe_move", r)
    /\ UNCHANGED <<moves_made, mines, safes, knowledge, probes>>
    /\ Frame

MakeRandomMove ==
    /\ \E r \in make_random_move(height, width, moves_made, mines) :
           last' = Call("make_random_move", r)
    /\ UNCHANGED <<moves_made, mines, safes, knowledge, probes>>
    /\ Frame

NextAPI ==
    \/ \E cell \in BoardCells(height, width) : MarkMine(cell)
    \/ \E cell \in BoardCells(height, width) : MarkSafe(cell)
    \/ \E cell \in BoardCells(height, width), count \in 0..MaxCount :
           AddKnowledge(cell, count)
    \/ UpdateKnowledgeBase
    \/ MakeSafeMove
    \/ MakeRandomMove

SpecAPI == InitAPI /\ [][NextAPI]_vars

\* C11 (monotonicity): across any sequence of calls, each of mines, safes
\* and moves_made after a call is a superset of its value before the call.
C11_Monotone ==
    [][/\ mines \subseteq mines'
       /\ safes \subseteq safes'
       /\ moves_made \subseteq moves_made']_vars

\* A call has classified cells as mines and as safe on top of earlier calls.
C11_Witness ==
    /\ last.op = "add_knowledge"
    /\ probes = 2
    /\ mines # {}
    /\ safes # {}
    /\ moves_made # {}

----------------------------------------------------------------------------
(* add_knowledge step by step: lines 204-220 open the call, line 221 runs  *)
(* the first pass, line 223 tests the loop condition, lines 224-225 rebind *)
(* knowledge_temp and run another pass.                                    *)

\* No call runs more passes than this in the exploration.
MaxPasses == 3

\* TempList with "knowledge_temp = self.knowledge.copy()" on line 224: the
\* loop then compares with a copy and goes on while a pass appends.
TempList_Copy(k, t) ==
    SubSeq(k, 1, t.len)

\* What knowledge_temp holds when it is compared with the list k.  After
\* line 220 it is a shallow copy: a list of the Sentence objects that were in
\* self.knowledge at that time, which are narrowed in place, so it holds the
\* first len sentences of k as they are now.  After line 224 it is the list
\* self.knowledge itself.
TempList(k, t) ==
    IF t.alias THEN k ELSE SubSeq(k, 1, t.len)

\* Lines 204-220.
BeginAddKnowledge(cell) ==
    /\ pc = "idle"
    /\ probes < MaxProbes
    /\ cell \in BoardCells(height, width) \ board
    /\ LET a1 == mark_safe(Self, cell)
           k == Append(a1.knowledge,
                       Sentence(neighboring_cells(height, width, cell),
                                nearby_mines(height, width, board, cell)))
       IN  /\ mines' = a1.mines
           /\ safes' = a1.safes
           /\ knowledge' = k
           /\ knowledge_temp' = [alias |-> FALSE, len |-> Len(k)]
    /\ moves_made' = moves_made \cup {cell}
    /\ probes' = probes + 1
    /\ passes' = 0
    /\ pc' = "first_pass"
    /\ UNCHANGED <<height, width, board, last>>

\* Line 221.
FirstPass ==
    /\ pc = "first_pass"
    /\ LET r == update_knowledge_base(Self)
       IN  mines' = r.mines /\ safes' = r.safes /\ knowledge' = r.knowledge
    /\ passes' = passes + 1
    /\ pc' = "test"
    /\ UNCHANGED <<height, width, board, moves_made, probes, last, knowledge_temp>>

\* Line 223, and line 224 when the loop is entered.
LoopTest ==
    /\ pc = "test"
    /\ IF knowledge = TempList(knowledge, knowledge_temp)
       THEN /\ pc' = "idle"
            /\ last' = Call("add_knowledge", None)
            /\ UNCHANGED knowledge_temp
       ELSE /\ pc' = "loop_pass"
            /\ knowledge_temp' = [alias |-> TRUE, len |-> Len(knowledge)]
            /\ UNCHANGED last
    /\ UNCHANGED <<height, width, board, moves_made, mines, safes, knowledge,
                   probes, passes>>

\* Line 225.
LoopPass ==
    /\ pc = "loop_pass"
    /\ passes < MaxPasses
    /\ LET r == update_knowledge_base(Self)
       IN  mines' = r.mines /\ safes' = r.safes /\ knowledge' = r.knowledge
    /\ passes' = passes + 1
    /\ pc' = "test"
    /\ UNCHANGED <<height, width, board, moves_made, probes, last, knowledge_temp>>

NextLoop ==
    \/ \E cell \in BoardCells(height, width) : BeginAddKnowledge(cell)
    \/ FirstPass
    \/ LoopTest
    \/ LoopPass
    \/ (pc = "idle" /\ MakeSafeMove)

SpecLoop == Init /\ [][NextLoop]_vars

\* How far a running call is from its return: the steps it can still take
\* when the second test of line 223 ends the loop.
Rank ==
    CASE pc = "first_pass" -> 4
      [] pc = "test" /\ ~knowledge_temp.alias -> 3
      [] pc = "loop_pass" -> 2
      [] pc = "test" /\ knowledge_temp.alias -> 1
      [] OTHER -> 0

\* C12 (termination): every add_knowledge call returns, because each of its
\* steps brings the return strictly nearer and no step is ever blocked; and
\* between calls the number of statements does not change.
C12_Terminates ==
    /\ [][pc # "idle" => Rank' < Rank]_vars
    /\ [][pc = "idle" /\ pc' = "idle" => Len(knowledge') = Len(knowledge)]_vars
    /\ [](pc = "loop_pass" => passes < MaxPasses)

\* A call that entered the loop and ran a second pass has returned.
C12_Witness ==
    /\ pc = "idle"
    /\ last.op = "add_knowledge"
    /\ passes = 2
    /\ knowledge_temp.alias

\* C13 (safeMove): make_safe_move returns a cell that is in safes and not in
\* moves_made whenever there is one, and None exactly when safes is a subset
\* of moves_made.
C13_SafeMoveResult ==
    last.op = "make_safe_move" =>
        /\ (last.ret = None) <=> (safes \subseteq moves_made)
        /\ last.ret # None => last.ret \in safes \ moves_made

\* make_safe_move returned a cell while another safe cell was already probed.
C13_Witness ==
    /\ last.op = "make_safe_move"
    /\ last.ret # None
    /\ safes \cap moves_made # {}

\* The set randomMove draws from.
Candidates == (BoardCells(height, width) \ moves_made) \ mines

\* C14 (randomMove): make_random_move returns only cells of the board that
\* are neither in moves_made nor in mines, every such cell is a possible
\* result, and it returns None exactly when there is no such cell.
C14_RandomMoveResult ==
    /\ make_random_move(height, width, moves_made, mines) =
           (IF Candidates = {} THEN {None} ELSE Candidates)
    /\ last.op = "make_random_move" =>
           /\ (last.ret = None) <=> (Candidates = {})
           /\ last.ret # None => last.ret \in Candidates

\* make_random_move returned a cell that is not known to be safe, while a
\* known mine was left out.
C14_Witness ==
    /\ last.op = "make_random_move"
    /\ last.ret # None
    /\ last.ret \notin safes
    /\ mines \cap BoardCells(height, width) # {}

\* C15 (safeMove is a pure query): a make_safe_move call leaves moves_made,
\* mines, safes and every statement unchanged.
C15_SafeMovePure ==
    [][MakeSafeMove => UNCHANGED <<moves_made, mines, safes, knowledge>>]_vars

\* make_safe_move returned a cell from a knowledge base that holds statements.
C15_Witness ==
    /\ last.op = "make_safe_move"
    /\ last.ret # None
    /\ knowledge # <<>>

\* C16 (idempotence): for any cell, mark_mine twice yields the same mines,
\* safes and statements as mark_mine once, and likewise mark_safe.
C16_MarkIdempotent ==
    \A c \in BoardCells(height, width) \cup StatementCells :
        /\ mark_mine(mark_mine(Self, c), c) = mark_mine(Self, c)
        /\ mark_safe(mark_safe(Self, c), c) = mark_safe(Self, c)

\* mark_mine has just been called and some statement still holds cells, so a
\* further mark_mine can narrow.
C16_Witness ==
    /\ last.op = "mark_mine"
    /\ mines # {}
    /\ StatementCells # {}

\* C17 (inconsistent input is surfaced): a call of add_knowledge never
\* completes normally with a statement whose count is negative or larger
\* than its cell set stored in the knowledge base.
C17_InconsistencySurfaced ==
    (last.op = "add_knowledge" /\ last.ret = None) =>
        \A s \in Range(knowledge) : 0 <= s.count /\ s.count <= Cardinality(s.cells)

----------------------------------------------------------------------------
(* The game loop on the 3 x 3 board whose only mine is (2,2): the two      *)
(* opening probes (0,0) and (1,1), then repeatedly make_safe_move and a    *)
(* probe of the cell it returned, with the count the board reports.  A     *)
(* returned cell that is off the board or a mine cannot be probed.         *)

GameSize == <<3, 3>>
GameMines == {<<2, 2>>}
Opening == << <<0, 0>>, <<1, 1>> >>

InitGame ==
    /\ height = GameSize[1]
    /\ width = GameSize[2]
    /\ board = GameMines
    /\ moves_made = {}
    /\ mines = {}
    /\ safes = {}
    /\ knowledge = <<>>
    /\ probes = 0
    /\ last = Call("__init__", None)
    /\ pc = "idle"
    /\ knowledge_temp = [alias |-> FALSE, len |-> 0]
    /\ passes = 0

\* add_knowledge(cell, nearby_mines(cell)) for a cell the board can report on.
Probe(cell) ==
    /\ cell \in BoardCells(height, width) \ board
    /\ LET r == add_knowledge(Self, height, width, cell,
                              nearby_mines(height, width, board, cell))
       IN  mines' = r.mines /\ safes' = r.safes /\ knowledge' = r.knowledge
    /\ moves_made' = moves_made \cup {cell}
    /\ probes' = probes + 1
    /\ last' = Call("add_knowledge", None)
    /\ Frame

GameOpening ==
    /\ probes < Len(Opening)
    /\ Probe(Opening[probes + 1])

GameSafeMove ==
    /\ probes >= Len(Opening)
    /\ last.op = "add_knowledge"
    /\ MakeSafeMove

GameProbe ==
    /\ probes >= Len(Opening)
    /\ last.op = "make_safe_move"
    /\ last.ret # None
    /\ Probe(last.ret)

NextGame == GameOpening \/ GameSafeMove \/ GameProbe

SpecGame == InitGame /\ [][NextGame]_vars

\* C18 (end to end): in the game loop make_safe_move only ever returns
\* non-mine cells of the board, and when it returns None all 8 non-mine
\* cells have been probed and mines is exactly {(2,2)}.
C18_EndToEnd ==
    last.op = "make_safe_move" =>
        IF last.ret = None
        THEN moves_made = BoardCells(height, width) \ board /\ mines = board
        ELSE last.ret \in BoardCells(height, width) \ board

----------------------------------------------------------------------------
(* One inference pass, update_knowledge_base(), run on the knowledge base  *)
(* as add_knowledge left it.                                               *)

\* The statement subset inference owes for the pair (A, B).
Difference(A, B) == Sentence(B.cells \ A.cells, B.count - A.count)

\* C19 (subset inference): for every pair of distinct statements A and B in
\* the knowledge base with A.cells a proper subset of B.cells, after one pass
\* the knowledge base holds (B.cells - A.cells, B.count - A.count), and after
\* the following pass the implied mines of that statement are in mines.
C19_SubsetInference ==
    LET p1 == update_knowledge_base(Self)
        p2 == update_knowledge_base(p1)
    IN  \A i, j \in 1..Len(knowledge) :
            LET A == knowledge[i]
                B == knowledge[j]
            IN  (A.cells \subseteq B.cells /\ A.cells # B.cells) =>
                    /\ Difference(A, B) \in Range(p1.knowledge)
                    /\ known_mines(Difference(A, B)) \subseteq p2.mines

(* Probes of the 10 x 1 board whose only mine is (9,0), one step of        *)
(* add_knowledge at a time, so that the knowledge base is seen at the      *)
(* start of every pass the code runs.                                      *)

MaxLineProbes == 3
LineSize == <<10, 1>>
LineMines == {<<9, 0>>}

InitLine ==
    /\ height = LineSize[1]
    /\ width = LineSize[2]
    /\ board = LineMines
    /\ moves_made = {}
    /\ mines = {}
    /\ safes = {}
    /\ knowledge = <<>>
    /\ probes = 0
    /\ last = Call("__init__", None)
    /\ pc = "idle"
    /\ knowledge_temp = [alias |-> FALSE, len |-> 0]
    /\ passes = 0

\* Lines 204-220, for a cell that has not been probed yet.
LineBegin(cell) ==
    /\ pc = "idle"
    /\ probes < MaxLineProbes
    /\ cell \in BoardCells(height, width) \ (board \cup moves_made)
    /\ LET a1 == mark_safe(Self, cell)
           k == Append(a1.knowledge,
                       Sentence(neighboring_cells(height, width, cell),
                                nearby_mines(height, width, board, cell)))
       IN  /\ mines' = a1.mines
           /\ safes' = a1.safes
           /\ knowledge' = k
           /\ knowledge_temp' = [alias |-> FALSE, len |-> Len(k)]
    /\ moves_made' = moves_made \cup {cell}
    /\ probes' = probes + 1
    /\ passes' = 0
    /\ pc' = "first_pass"
    /\ UNCHANGED <<height, width, board, last>>

NextLine ==
    \/ \E cell \in BoardCells(height, width) : LineBegin(cell)
    \/ FirstPass
    \/ LoopTest
    \/ LoopPass

SpecLine == InitLine /\ [][NextLine]_vars

\* C20 (trivial deductions in one pass): for every statement in the
\* knowledge base when a pass starts, after the pass all the cells that
\* remain in it are in safes if its count was 0, and all of them are in
\* mines if its count was the size of its non-empty cell set.
C20_TrivialDeductions ==
    LET p == update_knowledge_base(Self)
    IN  \A i \in 1..Len(knowledge) :
            LET s == knowledge[i]
                r == p.knowledge[i]
            IN  /\ s.count = 0 => r.cells \subseteq p.safes
                /\ (s.cells # {} /\ s.count = Cardinality(s.cells)) =>
                       r.cells \subseteq p.mines

====
